---- MODULE Spec2Model ----
(***************************************************************************)
(* Bayes++ UD_scheme: the UdU' factorised covariance filter of             *)
(* Bayes++/BayesFilter/UDFlt.cpp, with the error handlers and              *)
(* Kalman_state::init_kalman of Bayes++/BayesFilter/bayesFlt.cpp.          *)
(*                                                                         *)
(* Float values are exact rationals <<num, den>> in lowest terms with      *)
(* den > 0; rounding is not modelled.  Vectors are functions on 0..size-1  *)
(* and matrices are functions row -> column -> Float, indexed from 0 as in *)
(* the source.  The scratch members d, dv, v, a, b, h1, zpdecol, Gz and    *)
(* GIHx are written before they are read inside every call, so they are    *)
(* local to the operators.  Numerical_rcond, the FM:: toolkit and the      *)
(* model classes are declared outside these two files and follow their     *)
(* documented contracts.                                                   *)
(***************************************************************************)
EXTENDS Integers, Sequences, FiniteSets

---------------------------------------------------------------------------
(* Bounds of the model *)

\* largest state dimension x_size the constructor is called with
MaxXSize == 2
\* the q_maxsize the constructor is called with
QMax == 1
\* largest measurement dimension z.size()
MaxZSize == 2
\* number of filter operations in one run
MaxOps == 3
\* halvings of a noise variance of 1 before it underflows to zero
MaxHalvings == 4

---------------------------------------------------------------------------
(* Float arithmetic *)

Abs(i) == IF i < 0 THEN -i ELSE i

RECURSIVE GCD(_, _)
GCD(p, q) == IF q = 0 THEN p ELSE GCD(q, p % q)

Norm(num, den) ==
    LET g == GCD(Abs(num), den) IN <<num \div g, den \div g>>

F(i) == <<i, 1>>
Zero == <<0, 1>>
One == <<1, 1>>
MinusOne == <<-1, 1>>

\* sums and comparisons over the least common denominator, products with
\* the cross factors cancelled first, so that intermediate integers stay small
fadd(p, q) ==
    LET g == GCD(p[2], q[2]) IN
    Norm(p[1] * (q[2] \div g) + q[1] * (p[2] \div g), (p[2] \div g) * q[2])
fsub(p, q) == fadd(p, <<-q[1], q[2]>>)
fmul(p, q) ==
    LET g1 == GCD(Abs(p[1]), q[2])
        g2 == GCD(Abs(q[1]), p[2])
    IN  IF p[1] = 0 \/ q[1] = 0 THEN Norm(0, p[2] * q[2])
        ELSE <<(p[1] \div g1) * (q[1] \div g2), (p[2] \div g2) * (q[2] \div g1)>>
fdiv(p, q) ==
    IF q[1] > 0 THEN fmul(p, <<q[2], q[1]>>) ELSE fmul(p, <<-q[2], -q[1]>>)
flt(p, q) ==
    LET g == GCD(p[2], q[2]) IN p[1] * (q[2] \div g) < q[1] * (p[2] \div g)
fle(p, q) ==
    LET g == GCD(p[2], q[2]) IN p[1] * (q[2] \div g) <= q[1] * (p[2] \div g)

Size(vec) == Cardinality(DOMAIN vec)

\* sum of t[lo] .. t[hi], accumulated from lo upwards
RECURSIVE FSum(_, _, _)
FSum(t, lo, hi) == IF hi < lo THEN Zero ELSE fadd(FSum(t, lo, hi - 1), t[hi])

\* the value t itself, with every element computed (a function constructor is
\* otherwise evaluated again at each use)
Val(t) == CHOOSE g \in {t} : g = t

Set1(vec, i, val) == Val([k \in DOMAIN vec |-> IF k = i THEN val ELSE vec[k]])

Set2(M, i, j, val) ==
    Val([r \in DOMAIN M |-> [c \in DOMAIN M[r] |->
            IF r = i /\ c = j THEN val ELSE M[r][c]]])

\* the indeterminate value of a Float that is allocated and not yet assigned
\* (no Float has denominator 0, and arithmetic on it is an evaluation error)
Uninit == <<0, 0>>

---------------------------------------------------------------------------
(* Conditioning policy and the numeric toolkit *)

\* std::numeric_limits<Float>::epsilon() * 1e5 for double:
\* 2^-52 * 10^5 = 3125 / 2^47, kept as mantissa and binary exponent
limit_PD_init == [mant |-> 3125, exp2 |-> 47]

\* rc < lim.mant / 2^lim.exp2, that is rc.num * 2^exp2 <= mant * rc.den - 1
RECURSIVE ScaledLe(_, _, _)
ScaledLe(p, e, y) == IF e = 0 THEN p <= y ELSE ScaledLe(p, e - 1, y \div 2)

BelowLimit(rc, lim) ==
    IF rc[1] <= 0 THEN TRUE ELSE ScaledLe(rc[1], lim.exp2, lim.mant * rc[2] - 1)

\* Numerical_rcond::check_PSD: TRUE when the rcond is refused
check_PSD_fails(lim, rcond) == BelowLimit(rcond, lim)

\* FM::UdUrcond: min/max of the diagonal of the left n x n block,
\* -1 with a negative element, 0 when max is 0
fmin(p, q) == IF flt(q, p) THEN q ELSE p
fmax(p, q) == IF flt(p, q) THEN q ELSE p

RECURSIVE DiagMin(_, _)
DiagMin(M, n) == IF n = 1 THEN M[0][0] ELSE fmin(DiagMin(M, n - 1), M[n-1][n-1])

RECURSIVE DiagMax(_, _)
DiagMax(M, n) == IF n = 0 THEN Zero ELSE fmax(DiagMax(M, n - 1), M[n-1][n-1])

rcond_min_max(mind, maxd) ==
    IF flt(mind, Zero) THEN MinusOne
    ELSE IF maxd = Zero THEN Zero
    ELSE fdiv(mind, maxd)

UdUrcond(M, n) == rcond_min_max(DiagMin(M, n), DiagMax(M, n))

\* FM::UdUfactor (M, n): in place upper triangular UdU' factorisation
RECURSIVE UdUfactor_k(_, _, _, _, _)
UdUfactor_k(M, e, i, j, k) ==
    IF k > i THEN M
    ELSE UdUfactor_k(Set2(M, k, i, fsub(M[k][i], fmul(e, M[k][j]))), e, i, j, k + 1)

RECURSIVE UdUfactor_i(_, _, _, _)
UdUfactor_i(M, dinv, i, j) ==
    IF i >= j THEN M
    ELSE UdUfactor_i(UdUfactor_k(Set2(M, i, j, fmul(dinv, M[i][j])), M[i][j], i, j, 0),
                     dinv, i + 1, j)

RECURSIVE UdUfactor_j(_, _)
UdUfactor_down(M, j) ==
    IF j = 0 THEN [UD |-> M, negative |-> FALSE] ELSE UdUfactor_j(M, j - 1)

UdUfactor_j(M, j) ==
    IF flt(Zero, M[j][j])
    THEN UdUfactor_down(UdUfactor_i(M, fdiv(One, M[j][j]), 0, j), j)
    ELSE IF M[j][j] = Zero
    THEN IF \E i \in 0..(j-1) : M[i][j] # Zero
         THEN [UD |-> M, negative |-> TRUE]
         ELSE UdUfactor_down(M, j)
    ELSE [UD |-> M, negative |-> TRUE]

UdUfactor_rcond(r, n) ==
    [UD |-> r.UD, rcond |-> IF r.negative THEN MinusOne ELSE UdUrcond(r.UD, n)]

UdUfactor(M, n) == UdUfactor_rcond(UdUfactor_j(M, n - 1), n)

\* FM::UdUrecompose: X = U D U' from the upper triangle of the left block
Ufac(M, i, k) == IF i = k THEN One ELSE IF i < k THEN M[i][k] ELSE Zero

UdUrecompose(M, n) ==
    Val([i \in 0..(n-1) |-> [j \in 0..(n-1) |->
            FSum([k \in 0..(n-1) |-> fmul(fmul(Ufac(M, i, k), M[k][k]), Ufac(M, j, k))],
                 0, n - 1)]])

---------------------------------------------------------------------------
(* Bayes_base::error *)

Logic_exception == "Logic_exception"
Numeric_exception == "Numeric_exception"
NoError == "none"

---------------------------------------------------------------------------
(* UD_scheme::predictGq *)

Dot(row, vec, n) == FSum([k \in 0..(n-1) |-> fmul(row[k], vec[k])], 0, n - 1)

\* Augment d with q, UD with G
AugmentD(n, q) ==
    Val([k \in 0..(n + Size(q) - 1) |-> IF k >= n THEN q[k - n] ELSE Uninit])

AugmentUD(M, n, G, Nq) ==
    Val([j \in DOMAIN M |-> [c \in DOMAIN M[j] |->
            IF c >= n /\ c < n + Nq THEN G[j][c - n] ELSE M[j][c]]])

\* Prepare d(0)..d(j) as temporary
FxU_d(M, d, j) == Val([k \in DOMAIN d |-> IF k <= j THEN M[k][j] ELSE d[k]])

\* column j of Fx*U, from d = column j of U above its diagonal
FxU_col(M, d, Fx, j) ==
    Val([i \in DOMAIN M |-> [c \in DOMAIN M[i] |->
            IF c = j THEN fadd(Fx[i][j], Dot(Fx[i], d, j)) ELSE M[i][c]]])

\* U=Fx*U and diagonals retrieved, j = n-1..1
RECURSIVE FxU_j(_, _, _, _)
FxU_j(M, d, Fx, j) ==
    IF j = 0 THEN [UD |-> M, d |-> d]
    ELSE FxU_j(FxU_col(M, FxU_d(M, d, j), Fx, j), FxU_d(M, d, j), Fx, j - 1)

\* d[0] = UD(0,0), then complete U = Fx*U
FxU_0(r, Fx) ==
    [UD |-> Val([j \in DOMAIN r.UD |-> [c \in DOMAIN r.UD[j] |->
                    IF c = 0 THEN Fx[j][0] ELSE r.UD[j][c]]]),
     d |-> Set1(r.d, 0, r.UD[0][0])]

FxU(M, d, Fx, n) == FxU_0(FxU_j(M, d, Fx, n - 1), Fx)

\* row k less e times row j (held in v), with UD(j,k) = e
MWGS_elim(M, v, e, j, k, N) ==
    Val([r \in DOMAIN M |-> [c \in DOMAIN M[r] |->
            IF r = k /\ c < N THEN fsub(M[k][c], fmul(e, v[c]))
            ELSE IF r = j /\ c = k THEN e
            ELSE M[r][c]]])

\* positive definite pivot: eliminate row j from the rows k = 0..j-1
RECURSIVE MWGS_k(_, _, _, _, _, _, _)
MWGS_k(M, v, dv, diaginv, j, k, N) ==
    IF k >= j THEN M
    ELSE MWGS_k(MWGS_elim(M, v, fmul(Dot(M[k], dv, N), diaginv), j, k, N),
                v, dv, diaginv, j, k + 1, N)

\* the loop goes on to row j-1, or has ended; rows is the record of the
\* rows the loop went through from here on
RECURSIVE MWGS_j(_, _, _, _)
MWGS_down(M, d, j, N) ==
    IF j = 0 THEN [UD |-> M, negative |-> FALSE, rows |-> <<>>]
    ELSE MWGS_j(M, d, j - 1, N)

\* goto Negative
MWGS_Negative(M) == [UD |-> M, negative |-> TRUE, rows |-> <<>>]

\* Possibly Semidefinate, check not negative: some row k < j has a nonzero
\* product with dv
MWGS_coupled(M, dv, j, N) ==
    \E k \in 0..(j-1) : \E i \in 0..(N-1) : fmul(M[k][i], dv[i]) # Zero

\* row j, entered with the matrix M and found to have the pivot e, put in
\* front of the record of the rows that followed it
MWGS_row(M, dv, j, N, e, rest) ==
    [rest EXCEPT !.rows = <<[j |-> j, e |-> e, UD |-> M,
                             coupled |-> MWGS_coupled(M, dv, j, N)]>> \o @]

\* a zero pivot taken as consistent without the scan of the rows k < j
MWGS_pivot_unscanned(M, d, j, N, v, dv, e) ==
    MWGS_row(M, dv, j, N, e,
        IF flt(Zero, e)
        THEN MWGS_down(MWGS_k(Set2(M, j, j, e), v, dv, fdiv(One, e), j, 0, N), d, j, N)
        ELSE IF e = Zero
        THEN MWGS_down(Set2(M, j, j, e), d, j, N)
        ELSE MWGS_Negative(M))

\* Check diagonal element e of row j
MWGS_pivot(M, d, j, N, v, dv, e) ==
    MWGS_row(M, dv, j, N, e,
        IF flt(Zero, e)
        THEN MWGS_down(MWGS_k(Set2(M, j, j, e), v, dv, fdiv(One, e), j, 0, N), d, j, N)
        ELSE IF e = Zero
        THEN IF MWGS_coupled(M, dv, j, N)
             THEN MWGS_Negative(Set2(M, j, j, e))
             ELSE MWGS_down(Set2(M, j, j, e), d, j, N)
        ELSE MWGS_Negative(M))

MWGS_dv(M, d, j, N, v, dv) == MWGS_pivot(M, d, j, N, v, dv, Dot(v, dv, N))

MWGS_v(M, d, j, N, v) ==
    MWGS_dv(M, d, j, N, v, Val([k \in 0..(N-1) |-> fmul(d[k], v[k])]))

\* The MWG-S algorithm on UD transpose, j = n-1..0
MWGS_j(M, d, j, N) == MWGS_v(M, d, j, N, Val([k \in 0..(N-1) |-> M[j][k]]))

\* the lower triangle zeroed with the copy to the upper triangle lost
TransposeZero_lost(M, n) ==
    Val([i \in DOMAIN M |-> [c \in DOMAIN M[i] |->
            IF c >= n \/ i <= c THEN M[i][c] ELSE Zero]])

\* the copy to the upper triangle made, the lower triangle left as it is
TransposeZero_unzeroed(M, n) ==
    Val([i \in DOMAIN M |-> [c \in DOMAIN M[i] |->
            IF c < n /\ i < c THEN M[c][i] ELSE M[i][c]]])

\* Transpose and Zero lower triangle
TransposeZero(M, n) ==
    Val([i \in DOMAIN M |-> [c \in DOMAIN M[i] |->
            IF c >= n \/ i = c THEN M[i][c]
            ELSE IF i < c THEN M[c][i]
            ELSE Zero]])

predictGq_rcond(M, n, rows) ==
    [UD |-> M, err |-> NoError, rcond |-> UdUrcond(M, n), rows |-> rows]

predictGq_end(gs, n) ==
    IF gs.negative
    THEN [UD |-> gs.UD, err |-> NoError, rcond |-> MinusOne, rows |-> gs.rows]
    ELSE predictGq_rcond(TransposeZero(gs.UD, n), n, gs.rows)

predictGq_mwgs(fxu, n, N) == predictGq_end(MWGS_j(fxu.UD, fxu.d, n - 1, N), n)

\* the size check made after the augmentation instead of before it
predictGq_checks_late(M, n, q_max, Fx, G, q) ==
    IF Size(q) > q_max
    THEN [UD |-> AugmentUD(M, n, G, Size(q)), err |-> Logic_exception, rcond |-> Zero,
          rows |-> <<>>]
    ELSE predictGq_mwgs(FxU(AugmentUD(M, n, G, Size(q)), AugmentD(n, q), Fx, n),
                        n, n + Size(q))

predictGq(M, n, q_max, Fx, G, q) ==
    IF Size(q) > q_max
    THEN [UD |-> M, err |-> Logic_exception, rcond |-> Zero, rows |-> <<>>]
    ELSE predictGq_mwgs(FxU(AugmentUD(M, n, G, Size(q)), AugmentD(n, q), Fx, n),
                        n, n + Size(q))

---------------------------------------------------------------------------
(* UD_scheme::observeUD *)

\* Compute b = DU'h, a = U'h
observeUD_a(M, n, h) ==
    Val([j \in 0..(n-1) |->
            fadd(h[j], FSum([k \in 0..(j-1) |-> fmul(M[k][j], h[k])], 0, j - 1))])

observeUD_b(M, n, a) == Val([j \in 0..(n-1) |-> fmul(M[j][j], a[j])])

\* U modification of column j, i = 0..j-1
\* b(i) accumulated with the modified UD(i,j) instead of UD_jm1
RECURSIVE observeUD_i_modified(_, _, _, _, _)
observeUD_i_modified(M, b, lamda, j, i) ==
    IF i >= j THEN [UD |-> M, b |-> b]
    ELSE observeUD_i_modified(
             Set2(M, i, j, fadd(M[i][j], fmul(lamda, b[i]))),
             Set1(b, i, fadd(b[i], fmul(b[j], fadd(M[i][j], fmul(lamda, b[i]))))),
             lamda, j, i + 1)

RECURSIVE observeUD_i(_, _, _, _, _)
observeUD_i(M, b, lamda, j, i) ==
    IF i >= j THEN [UD |-> M, b |-> b]
    ELSE observeUD_i(Set2(M, i, j, fadd(M[i][j], fmul(lamda, b[i]))),
                     Set1(b, i, fadd(b[i], fmul(b[j], M[i][j]))),
                     lamda, j, i + 1)

RECURSIVE observeUD_j(_, _, _, _, _, _, _)
observeUD_up(u, a, alpha, gamma, j, n) ==
    observeUD_j(u.UD, a, u.b, alpha, gamma, j + 1, n)

\* lamda taken after gamma has become 1/alpha instead of before
observeUD_d_lamda_late(M, a, b, alpha_jm1, alpha, gamma, j, n) ==
    IF fle(alpha, Zero)
    THEN [UD |-> M, b |-> b, alpha |-> alpha, gamma |-> gamma, notPD |-> TRUE]
    ELSE observeUD_up(
             observeUD_i(Set2(M, j, j, fmul(M[j][j], fmul(alpha_jm1, fdiv(One, alpha)))),
                         b, fmul(fsub(Zero, a[j]), fdiv(One, alpha)), j, 0),
             a, alpha, fdiv(One, alpha), j, n)

\* d modification with the new alpha, then U modification
observeUD_d(M, a, b, alpha_jm1, alpha, gamma, j, n) ==
    IF fle(alpha, Zero)
    THEN [UD |-> M, b |-> b, alpha |-> alpha, gamma |-> gamma, notPD |-> TRUE]
    ELSE observeUD_up(
             observeUD_i(Set2(M, j, j, fmul(M[j][j], fmul(alpha_jm1, fdiv(One, alpha)))),
                         b, fmul(fsub(Zero, a[j]), gamma), j, 0),
             a, alpha, fdiv(One, alpha), j, n)

\* Update rest of UD and gain b, j = 1..n-1
observeUD_j(M, a, b, alpha, gamma, j, n) ==
    IF j >= n
    THEN [UD |-> M, b |-> b, alpha |-> alpha, gamma |-> gamma, notPD |-> FALSE]
    ELSE observeUD_d(M, a, b, alpha, fadd(alpha, fmul(b[j], a[j])), gamma, j, n)

\* Update gain from b, and estimate the reciprocal condition number;
\* gain is the caller's vector, left as it was on the alphaNotPD exit
observeUD_gain(u, n, gain) ==
    IF u.notPD
    THEN [UD |-> u.UD, gain |-> gain, alpha |-> u.alpha, rcond |-> MinusOne,
          notPD |-> TRUE]
    ELSE [UD |-> u.UD,
          gain |-> Val([j \in 0..(n-1) |-> fmul(u.b[j], u.gamma)]),
          alpha |-> u.alpha, rcond |-> UdUrcond(u.UD, n), notPD |-> FALSE]

\* d(0) scaled by gamma alone, the factor r left out
observeUD_0_unscaled(M, n, gain, r, a, b, alpha) ==
    IF fle(alpha, Zero)
    THEN [UD |-> M, gain |-> gain, alpha |-> alpha, rcond |-> MinusOne, notPD |-> TRUE]
    ELSE observeUD_gain(
             observeUD_j(Set2(M, 0, 0, fmul(M[0][0], fdiv(One, alpha))),
                         a, b, alpha, fdiv(One, alpha), 1, n),
             n, gain)

\* Update UD(0,0), d(0) modification
observeUD_0(M, n, gain, r, a, b, alpha) ==
    IF fle(alpha, Zero)
    THEN [UD |-> M, gain |-> gain, alpha |-> alpha, rcond |-> MinusOne, notPD |-> TRUE]
    ELSE observeUD_gain(
             observeUD_j(Set2(M, 0, 0, fmul(M[0][0], fmul(r, fdiv(One, alpha)))),
                         a, b, alpha, fdiv(One, alpha), 1, n),
             n, gain)

observeUD_ab(M, n, gain, r, a, b) ==
    observeUD_0(M, n, gain, r, a, b, fadd(r, fmul(b[0], a[0])))

observeUD_h(M, n, gain, r, a) == observeUD_ab(M, n, gain, r, a, observeUD_b(M, n, a))

observeUD(M, n, gain, h, r) == observeUD_h(M, n, gain, r, observeUD_a(M, n, h))

---------------------------------------------------------------------------
(* Models supplied by the caller.  A predict model is [Fx, G, q, u] with   *)
(* f(x) = Fx x + u; an observe model is [Hx, Zv, c] with h(x) = Hx x + c,  *)
(* or [Hx, Z, c] when its noise is correlated.                             *)

\* Linrz_predict_model::f
f_f(f, vec, n) == Val([i \in 0..(n-1) |-> fadd(Dot(f.Fx[i], vec, n), f.u[i])])

\* Linrz_uncorrelated_observe_model::h, the whole predicted observation
h_h(h, vec, n) == Val([o \in DOMAIN h.Hx |-> fadd(Dot(h.Hx[o], vec, n), h.c[o])])

\* UD_sequential_observe_model::ho, which computes element o alone and
\* leaves the model's Hx_o as row o of the Jacobian
h_ho(h, vec, n, o) ==
    [zp |-> [k \in DOMAIN h.Hx |->
                IF k = o THEN fadd(Dot(h.Hx[o], vec, n), h.c[o]) ELSE Uninit],
     Hx_o |-> h.Hx[o]]

\* Observe_function::normalise, the default hook: z is left as it is
normalise(z_denorm, z_from) == z_denorm

---------------------------------------------------------------------------
(* UD_scheme: the fields of one filter as a record                         *)
(*   x mean, X covariance, UD factor, s/Sd innovation and its variance,    *)
(*   znorm normalised observation, w gain, last_z_size                     *)

UninitVec(size) == [i \in 0..(size-1) |-> Uninit]
UninitMat(rows, cols) == [i \in 0..(rows-1) |-> [j \in 0..(cols-1) |-> Uninit]]

\* the buffers resized on every call
observe_size_always(st, z_size) ==
    [st EXCEPT !.last_z_size = z_size,
               !.s = UninitVec(z_size),
               !.Sd = UninitVec(z_size),
               !.znorm = UninitVec(z_size)]

\* UD_scheme::observe_size
observe_size(st, z_size) ==
    IF z_size # st.last_z_size
    THEN [st EXCEPT !.last_z_size = z_size,
                    !.s = UninitVec(z_size),
                    !.Sd = UninitVec(z_size),
                    !.znorm = UninitVec(z_size)]
    ELSE st

\* UD_scheme::UD_scheme
UD_scheme(x_size, q_maxsize, z_initialsize) ==
    observe_size([x |-> UninitVec(x_size),
                  X |-> UninitMat(x_size, x_size),
                  UD |-> UninitMat(x_size, x_size + q_maxsize),
                  s |-> UninitVec(0), Sd |-> UninitVec(0), znorm |-> UninitVec(0),
                  w |-> UninitVec(x_size),
                  last_z_size |-> 0],
                 z_initialsize)

\* what a call hands back: the filter, the exception thrown (or none), the
\* value returned, and the scalar updates observeUD made during the call
Outcome(st, err, ret, trace) ==
    [st |-> st, err |-> err, ret |-> ret, trace |-> trace, what |-> ""]

\* Bayes_base::error: the exception thrown, what() being its description
Raised(st, err, description, trace) ==
    [st |-> st, err |-> err, ret |-> Uninit, trace |-> trace, what |-> description]

\* the factorisation's rcond not routed through check_PSD
init_unchecked(st, n, lim) ==
    Outcome([st EXCEPT !.UD = UdUfactor(
                 Val([i \in 0..(n-1) |-> [c \in DOMAIN st.UD[i] |->
                         IF c < n THEN st.X[i][c] ELSE st.UD[i][c]]]), n).UD],
            NoError, Uninit, <<>>)

\* the description of predict's check given to init's
init_described_as_predict(st, n, lim) ==
    LET M == Val([i \in 0..(n-1) |-> [c \in DOMAIN st.UD[i] |->
                     IF c < n THEN st.X[i][c] ELSE st.UD[i][c]]])
        fac == UdUfactor(M, n)
        st1 == [st EXCEPT !.UD = fac.UD]
    IN  IF check_PSD_fails(lim, fac.rcond)
        THEN Raised(st1, Numeric_exception, "X not PSD in predict", <<[rcond |-> fac.rcond]>>)
        ELSE Outcome(st1, NoError, Uninit, <<[rcond |-> fac.rcond]>>)

\* UD_scheme::init
init(st, n, lim) ==
    LET M == Val([i \in 0..(n-1) |-> [c \in DOMAIN st.UD[i] |->
                     IF c < n THEN st.X[i][c] ELSE st.UD[i][c]]])
        fac == UdUfactor(M, n)
        st1 == [st EXCEPT !.UD = fac.UD]
    IN  IF check_PSD_fails(lim, fac.rcond)
        THEN Raised(st1, Numeric_exception, "Initial X not PSD", <<[rcond |-> fac.rcond]>>)
        ELSE Outcome(st1, NoError, Uninit, <<[rcond |-> fac.rcond]>>)

\* Kalman_state::init_kalman
init_kalman(st, n, lim, x0, X0) == init([st EXCEPT !.x = x0, !.X = X0], n, lim)

\* the left block of UD copied to X as it is
update_copies(st, n) ==
    [st EXCEPT !.X = Val([i \in 0..(n-1) |-> [j \in 0..(n-1) |-> st.UD[i][j]]])]

\* UD_scheme::update
update(st, n) == [st EXCEPT !.X = UdUrecompose(st.UD, n)]

\* predictGq's rcond returned without check_PSD
predict_unchecked(st, n, q_max, lim, f) ==
    LET p == predictGq(st.UD, n, q_max, f.Fx, f.G, f.q)
        st2 == [st EXCEPT !.x = f_f(f, st.x, n), !.UD = p.UD]
    IN  IF p.err # NoError
        THEN Raised(st2, p.err, "Predict model q larger than preallocated space", <<>>)
        ELSE Outcome(st2, NoError, p.rcond, <<[rcond |-> p.rcond, rows |-> p.rows]>>)

\* UD_scheme::predict
predict(st, n, q_max, lim, f) ==
    LET st1 == [st EXCEPT !.x = f_f(f, st.x, n)]
        p == predictGq(st1.UD, n, q_max, f.Fx, f.G, f.q)
        st2 == [st1 EXCEPT !.UD = p.UD]
    IN  IF p.err # NoError
        THEN Raised(st2, p.err, "Predict model q larger than preallocated space", <<>>)
        ELSE IF check_PSD_fails(lim, p.rcond)
        THEN Raised(st2, Numeric_exception, "X not PSD in predict",
                    <<[rcond |-> p.rcond, rows |-> p.rows]>>)
        ELSE Outcome(st2, NoError, p.rcond, <<[rcond |-> p.rcond, rows |-> p.rows]>>)

---------------------------------------------------------------------------
(* UD_scheme::observe *)

\* std::numeric_limits<Float>::max(): above every Float of the model
\* (flt(p, Float_max) holds for every p with a positive denominator)
Float_max == <<1, 0>>

\* one scalar update as observeUD made it, kept for the call's record
Sub(o, st, h1, r, u) ==
    [o |-> o, x |-> st.x, UD |-> st.UD, h |-> h1, r |-> r,
     alpha |-> u.alpha, gain |-> u.gain, rcond |-> u.rcond, notPD |-> u.notPD,
     UDpost |-> u.UD]

\* State update with the innovation, then copy s and Sd
Innovate(st, n, o, sv, S) ==
    [st EXCEPT !.x = Val([i \in 0..(n-1) |-> fadd(st.x[i], fmul(st.w[i], sv))]),
               !.s = Set1(st.s, o, sv),
               !.Sd = Set1(st.Sd, o, S)]

\* a rejected rcond not raised: the loop goes on to the next element
RECURSIVE observe_uncorrelated_o_goes_on(_, _, _, _, _, _, _, _)
observe_uncorrelated_o_goes_on(st, n, lim, h, z, o, rcondmin, trace) ==
    IF o >= Size(z) THEN Outcome(st, NoError, rcondmin, trace)
    ELSE LET zp == h_h(h, st.x, n)
             st1 == [st EXCEPT !.znorm = normalise(z, zp)]
             h1 == h.Hx[o]
         IN  IF flt(h.Zv[o], Zero)
             THEN Raised(st1, Numeric_exception, "Zv not PSD in observe", trace)
             ELSE LET u == observeUD(st1.UD, n, st1.w, h1, h.Zv[o])
                      st2 == [st1 EXCEPT !.UD = u.UD, !.w = u.gain]
                      trace1 == Append(trace, Sub(o, st1, h1, h.Zv[o], u))
                  IN  IF check_PSD_fails(lim, u.rcond)
                      THEN observe_uncorrelated_o_goes_on(st2, n, lim, h, z, o + 1,
                                                          rcondmin, trace1)
                      ELSE observe_uncorrelated_o_goes_on(
                               Innovate(st2, n, o, fsub(st2.znorm[o], zp[o]), u.alpha),
                               n, lim, h, z, o + 1,
                               IF flt(u.rcond, rcondmin) THEN u.rcond ELSE rcondmin,
                               trace1)

\* observe (Linrz_uncorrelated_observe_model&): the loop from element o on
RECURSIVE observe_uncorrelated_o(_, _, _, _, _, _, _, _)
observe_uncorrelated_o(st, n, lim, h, z, o, rcondmin, trace) ==
    IF o >= Size(z) THEN Outcome(st, NoError, rcondmin, trace)
    ELSE LET zp == h_h(h, st.x, n)
             st1 == [st EXCEPT !.znorm = normalise(z, zp)]
             h1 == h.Hx[o]
         IN  IF flt(h.Zv[o], Zero)
             THEN Raised(st1, Numeric_exception, "Zv not PSD in observe", trace)
             ELSE LET u == observeUD(st1.UD, n, st1.w, h1, h.Zv[o])
                      st2 == [st1 EXCEPT !.UD = u.UD, !.w = u.gain]
                      trace1 == Append(trace, Sub(o, st1, h1, h.Zv[o], u))
                  IN  IF check_PSD_fails(lim, u.rcond)
                      THEN Raised(st2, Numeric_exception, "S not PD in observe", trace1)
                      ELSE observe_uncorrelated_o(
                               Innovate(st2, n, o, fsub(st2.znorm[o], zp[o]), u.alpha),
                               n, lim, h, z, o + 1,
                               IF flt(u.rcond, rcondmin) THEN u.rcond ELSE rcondmin,
                               trace1)

\* the loop with the prediction zp handed in, not evaluated at the mean
RECURSIVE observe_uncorrelated_o_given(_, _, _, _, _, _, _, _, _)
observe_uncorrelated_o_given(st, n, lim, h, z, o, rcondmin, trace, zp) ==
    IF o >= Size(z) THEN Outcome(st, NoError, rcondmin, trace)
    ELSE LET st1 == [st EXCEPT !.znorm = normalise(z, zp)]
             h1 == h.Hx[o]
         IN  IF flt(h.Zv[o], Zero)
             THEN Raised(st1, Numeric_exception, "Zv not PSD in observe", trace)
             ELSE LET u == observeUD(st1.UD, n, st1.w, h1, h.Zv[o])
                      st2 == [st1 EXCEPT !.UD = u.UD, !.w = u.gain]
                      trace1 == Append(trace, Sub(o, st1, h1, h.Zv[o], u))
                  IN  IF check_PSD_fails(lim, u.rcond)
                      THEN Raised(st2, Numeric_exception, "S not PD in observe", trace1)
                      ELSE observe_uncorrelated_o_given(
                               Innovate(st2, n, o, fsub(st2.znorm[o], zp[o]), u.alpha),
                               n, lim, h, z, o + 1,
                               IF flt(u.rcond, rcondmin) THEN u.rcond ELSE rcondmin,
                               trace1, zp)

\* h.h(x) evaluated once, before the loop, at the mean the call began with
observe_uncorrelated_once(st, n, lim, h, z) ==
    observe_uncorrelated_o_given(observe_size(st, Size(z)), n, lim, h, z, 0, Float_max,
                                 <<>>, h_h(h, st.x, n))

observe_uncorrelated(st, n, lim, h, z) ==
    observe_uncorrelated_o(observe_size(st, Size(z)), n, lim, h, z, 0, Float_max, <<>>)

\* the error not raised, the call falling through to return 0.
observe_linrz_correlated_returns(st) == Outcome(st, NoError, Zero, <<>>)

\* observe (Linrz_correlated_observe_model&): no solution
observe_linrz_correlated(st) ==
    Raised(st, Logic_exception, "observe no Linrz_correlated_observe_model solution", <<>>)

\* the Z precondition not checked: observeUD called whatever Zv[o] is
RECURSIVE observe_sequential_o_unvalidated(_, _, _, _, _, _, _, _)
observe_sequential_o_unvalidated(st, n, lim, h, z, o, rcondmin, trace) ==
    IF o >= Size(z) THEN Outcome(st, NoError, rcondmin, trace)
    ELSE LET m == h_ho(h, st.x, n, o)
             st1 == [st EXCEPT !.znorm = normalise(z, m.zp)]
             u == observeUD(st1.UD, n, st1.w, m.Hx_o, h.Zv[o])
             st2 == [st1 EXCEPT !.UD = u.UD, !.w = u.gain]
             trace1 == Append(trace, Sub(o, st1, m.Hx_o, h.Zv[o], u))
         IN  IF check_PSD_fails(lim, u.rcond)
             THEN Raised(st2, Numeric_exception, "S not PD in observe", trace1)
             ELSE observe_sequential_o_unvalidated(
                      Innovate(st2, n, o, fsub(st2.znorm[o], m.zp[o]), u.alpha),
                      n, lim, h, z, o + 1,
                      IF flt(u.rcond, rcondmin) THEN u.rcond ELSE rcondmin,
                      trace1)

\* the last rcond returned instead of the minimum
RECURSIVE observe_sequential_o_last_rcond(_, _, _, _, _, _, _, _)
observe_sequential_o_last_rcond(st, n, lim, h, z, o, rcondmin, trace) ==
    IF o >= Size(z) THEN Outcome(st, NoError, rcondmin, trace)
    ELSE LET m == h_ho(h, st.x, n, o)
             st1 == [st EXCEPT !.znorm = normalise(z, m.zp)]
         IN  IF flt(h.Zv[o], Zero)
             THEN Raised(st1, Numeric_exception, "Zv not PSD in observe", trace)
             ELSE LET u == observeUD(st1.UD, n, st1.w, m.Hx_o, h.Zv[o])
                      st2 == [st1 EXCEPT !.UD = u.UD, !.w = u.gain]
                      trace1 == Append(trace, Sub(o, st1, m.Hx_o, h.Zv[o], u))
                  IN  IF check_PSD_fails(lim, u.rcond)
                      THEN Raised(st2, Numeric_exception, "S not PD in observe", trace1)
                      ELSE observe_sequential_o_last_rcond(
                               Innovate(st2, n, o, fsub(st2.znorm[o], m.zp[o]), u.alpha),
                               n, lim, h, z, o + 1, u.rcond, trace1)

\* observe (UD_sequential_observe_model&): the loop from element o on
RECURSIVE observe_sequential_o(_, _, _, _, _, _, _, _)
observe_sequential_o(st, n, lim, h, z, o, rcondmin, trace) ==
    IF o >= Size(z) THEN Outcome(st, NoError, rcondmin, trace)
    ELSE LET m == h_ho(h, st.x, n, o)
             st1 == [st EXCEPT !.znorm = normalise(z, m.zp)]
         IN  IF flt(h.Zv[o], Zero)
             THEN Raised(st1, Numeric_exception, "Zv not PSD in observe", trace)
             ELSE LET u == observeUD(st1.UD, n, st1.w, m.Hx_o, h.Zv[o])
                      st2 == [st1 EXCEPT !.UD = u.UD, !.w = u.gain]
                      trace1 == Append(trace, Sub(o, st1, m.Hx_o, h.Zv[o], u))
                  IN  IF check_PSD_fails(lim, u.rcond)
                      THEN Raised(st2, Numeric_exception, "S not PD in observe", trace1)
                      ELSE observe_sequential_o(
                               Innovate(st2, n, o, fsub(st2.znorm[o], m.zp[o]), u.alpha),
                               n, lim, h, z, o + 1,
                               IF flt(u.rcond, rcondmin) THEN u.rcond ELSE rcondmin,
                               trace1)

observe_sequential(st, n, lim, h, z) ==
    observe_sequential_o(observe_size(st, Size(z)), n, lim, h, z, 0, Float_max, <<>>)

\* Solve G* GIHx = Hx for GIHx in-place, i = z_size-1..0
RECURSIVE SolveGIHx(_, _, _, _)
SolveGIHx(Gz, GIHx, i, n) ==
    IF i < 0 THEN GIHx
    ELSE SolveGIHx(Gz,
             Val([o \in DOMAIN GIHx |-> [j \in 0..(n-1) |->
                     IF o = i
                     THEN fsub(GIHx[i][j],
                               FSum([k \in (i+1)..(Size(GIHx)-1) |->
                                        fmul(Gz[i][k], GIHx[k][j])], i + 1, Size(GIHx) - 1))
                     ELSE GIHx[o][j]]]),
             i - 1, n)

\* Solve G zp~ = z, G z~ = z for zp~,z~ in-place, i = z_size-1..0
RECURSIVE SolveVec(_, _, _)
SolveVec(Gz, vec, i) ==
    IF i < 0 THEN vec
    ELSE SolveVec(Gz,
             Val([o \in DOMAIN vec |->
                     IF o = i
                     THEN fsub(vec[i],
                               FSum([k \in (i+1)..(Size(vec)-1) |-> fmul(Gz[i][k], vec[k])],
                                    i + 1, Size(vec) - 1))
                     ELSE vec[o]]),
             i - 1)

\* observe (Linear_correlated_observe_model&): the loop from element o on
RECURSIVE observe_linear_correlated_o(_, _, _, _, _, _, _, _, _)
\* rcondmin overwritten by every rcond instead of lowered by it
observe_linear_correlated_u_last(st, n, lim, Gz, GIHx, zpdecol, o, rcondmin, trace, u) ==
    IF check_PSD_fails(lim, u.rcond)
    THEN Raised([st EXCEPT !.UD = u.UD, !.w = u.gain], Numeric_exception, "S not PD in observe",
                 Append(trace, Sub(o, st, GIHx[o], Gz[o][o], u)))
    ELSE observe_linear_correlated_o(
             Innovate([st EXCEPT !.UD = u.UD, !.w = u.gain], n, o,
                      fsub(st.znorm[o], zpdecol[o]), u.alpha),
             n, lim, Gz, GIHx, zpdecol, o + 1, u.rcond,
             Append(trace, Sub(o, st, GIHx[o], Gz[o][o], u)))

observe_linear_correlated_u(st, n, lim, Gz, GIHx, zpdecol, o, rcondmin, trace, u) ==
    IF check_PSD_fails(lim, u.rcond)
    THEN Raised([st EXCEPT !.UD = u.UD, !.w = u.gain], Numeric_exception, "S not PD in observe",
                 Append(trace, Sub(o, st, GIHx[o], Gz[o][o], u)))
    ELSE observe_linear_correlated_o(
             Innovate([st EXCEPT !.UD = u.UD, !.w = u.gain], n, o,
                      fsub(st.znorm[o], zpdecol[o]), u.alpha),
             n, lim, Gz, GIHx, zpdecol, o + 1,
             IF flt(u.rcond, rcondmin) THEN u.rcond ELSE rcondmin,
             Append(trace, Sub(o, st, GIHx[o], Gz[o][o], u)))

observe_linear_correlated_o(st, n, lim, Gz, GIHx, zpdecol, o, rcondmin, trace) ==
    IF o >= Size(zpdecol) THEN Outcome(st, NoError, rcondmin, trace)
    ELSE observe_linear_correlated_u(st, n, lim, Gz, GIHx, zpdecol, o, rcondmin, trace,
                                     observeUD(st.UD, n, st.w, GIHx[o], Gz[o][o]))

\* Factorise process noise as GzG', then decorrelate Hx, z and zp
observe_linear_correlated_Gz(st, n, lim, h, z, fac) ==
    IF check_PSD_fails(lim, fac.rcond)
    THEN Raised(st, Numeric_exception, "Z not PSD in observe", <<>>)
    ELSE observe_linear_correlated_o(
             [st EXCEPT !.znorm = SolveVec(fac.UD, normalise(z, h_h(h, st.x, n)),
                                           Size(z) - 1)],
             n, lim, fac.UD, SolveGIHx(fac.UD, h.Hx, Size(z) - 1, n),
             SolveVec(fac.UD, h_h(h, st.x, n), Size(z) - 1),
             0, Float_max, <<>>)

observe_linear_correlated(st, n, lim, h, z) ==
    observe_linear_correlated_Gz(observe_size(st, Size(z)), n, lim, h, z,
                                 UdUfactor(h.Z, Size(z)))

---------------------------------------------------------------------------
(* The values callers supply *)

\* covariances with diagonal dg + inc*i and every off-diagonal element ov:
\* positive definite, singular, badly conditioned, indefinite, negative
CovParams == {<<2, 0, 1>>, <<1, 0, 1>>, <<1, 4, 0>>, <<1, 0, 2>>, <<-1, 2, 0>>, <<2, 0, 0>>}

Cov(n, p) ==
    [i \in 0..(n-1) |-> [j \in 0..(n-1) |->
        IF i = j THEN F(p[1] + p[2] * i) ELSE F(p[3])]]

CovInit(n) == {Cov(n, p) : p \in CovParams}

XInit(n) == {[i \in 0..(n-1) |-> F(i + 1)]}

\* Jacobians with diagonal p[1], superdiagonal p[2], subdiagonal p[3];
\* the model's f adds p[4] to every element
FxParams == {<<1, 0, 0, 0>>, <<1, 1, 0, 1>>, <<2, 0, 1, 0>>}

\* coupling (identity-like or all ones) and the value of every q element
NoiseParams == {<<"unit", 1>>, <<"ones", 0>>, <<"ones", -8>>}

PredictModel(n, fp, Nq, np) ==
    [Fx |-> [i \in 0..(n-1) |-> [j \in 0..(n-1) |->
                IF i = j THEN F(fp[1])
                ELSE IF j = i + 1 THEN F(fp[2])
                ELSE IF i = j + 1 THEN F(fp[3])
                ELSE Zero]],
     u |-> [i \in 0..(n-1) |-> F(fp[4])],
     G |-> [i \in 0..(n-1) |-> [c \in 0..(Nq-1) |->
                IF np[1] = "ones" \/ i = c THEN One ELSE Zero]],
     q |-> [c \in 0..(Nq-1) |-> F(np[2])]]

\* q sizes 0..q_max, and one model whose q is longer than q_max
PredictModels(n, qmax) ==
    {PredictModel(n, fp, Nq, np) : fp \in FxParams, Nq \in 0..qmax, np \in NoiseParams}
    \cup {PredictModel(n, <<1, 0, 0, 0>>, qmax + 1, <<"ones", 1>>)}

\* Jacobian rows
HRow(n, kind) ==
    [j \in 0..(n-1) |->
        IF kind = "ones" THEN One
        ELSE IF kind = "e0" /\ j = 0 THEN One
        ELSE IF kind = "last" /\ j = n - 1 THEN One
        ELSE Zero]

\* <<row 0, later rows, Zv[0], later Zv>>
ObsParams ==
    {<<"e0", "e0", 1, 1>>, <<"ones", "e0", 1, 0>>, <<"e0", "last", 1, 1>>,
     <<"ones", "last", 1, -1>>, <<"e0", "last", 0, 1>>, <<"ones", "e0", -1, 1>>}

ObsModel(n, zs, p) ==
    [Hx |-> [o \in 0..(zs-1) |-> HRow(n, IF o = 0 THEN p[1] ELSE p[2])],
     Zv |-> [o \in 0..(zs-1) |-> F(IF o = 0 THEN p[3] ELSE p[4])],
     c |-> [o \in 0..(zs-1) |-> Zero]]

ObsModels(n, zs) == {ObsModel(n, zs, p) : p \in ObsParams}

\* <<row 0, later rows, diagonal of Z, off-diagonal of Z>>
CorrParams ==
    {<<"e0", "last", 2, 1>>, <<"ones", "e0", 1, 0>>, <<"e0", "last", 1, 2>>,
     <<"ones", "last", 1, 1>>}

CorrModel(n, zs, p) ==
    [Hx |-> [o \in 0..(zs-1) |-> HRow(n, IF o = 0 THEN p[1] ELSE p[2])],
     Z |-> [o \in 0..(zs-1) |-> [k \in 0..(zs-1) |-> F(IF o = k THEN p[3] ELSE p[4])]],
     c |-> [o \in 0..(zs-1) |-> Zero]]

CorrModels(n, zs) == {CorrModel(n, zs, p) : p \in CorrParams}

Zs(zs) == {[o \in 0..(zs-1) |-> F(o + 2)]}

\* Numerical_rcond: the default limit, or one the caller has set (1/4)
RcLimits == {limit_PD_init, [mant |-> 1, exp2 |-> 2]}

---------------------------------------------------------------------------
(* The filter and its use *)

VARIABLES
    x_size, q_max, rclimit,          \* fixed at construction
    x, X, UD, s, Sd, znorm, w, last_z_size,
    call,                            \* the last call: operation, arguments,
                                     \* whether it was made on a healthy filter,
                                     \* and the operation called before it
    pre,                             \* the filter as it was before the last call
    err, ret, trace,                 \* how the last call ended
    what,                            \* the description the exception carries
    nops,                            \* calls made so far
    healthy                          \* init succeeded and no call has failed since

vars == <<x_size, q_max, rclimit, x, X, UD, s, Sd, znorm, w, last_z_size,
          call, pre, err, ret, trace, what, nops, healthy>>

This ==
    [x |-> x, X |-> X, UD |-> UD, s |-> s, Sd |-> Sd, znorm |-> znorm, w |-> w,
     last_z_size |-> last_z_size]

Becomes(st) ==
    /\ x' = st.x
    /\ X' = st.X
    /\ UD' = st.UD
    /\ s' = st.s
    /\ Sd' = st.Sd
    /\ znorm' = st.znorm
    /\ w' = st.w
    /\ last_z_size' = st.last_z_size

\* a call and its outcome
Did(op, arg, z, out) ==
    /\ Becomes(out.st)
    /\ call' = [op |-> op, arg |-> arg, z |-> z, on_healthy |-> healthy,
                after |-> call.op]
    /\ pre' = This
    /\ err' = out.err
    /\ ret' = out.ret
    /\ trace' = out.trace
    /\ what' = out.what
    /\ nops' = nops + 1
    /\ healthy' = ((op = "init_kalman" \/ healthy) /\ out.err = NoError)
    /\ UNCHANGED <<x_size, q_max, rclimit>>

Called(op, arg, z, out) ==
    /\ nops < MaxOps
    /\ Did(op, arg, z, out)

\* every field of the filter is as the constructor leaves it
Init ==
    \E n \in 1..MaxXSize, zi \in 0..MaxZSize, lim \in RcLimits :
        /\ x_size = n
        /\ q_max = QMax
        /\ rclimit = lim
        /\ x = UD_scheme(n, QMax, zi).x
        /\ X = UD_scheme(n, QMax, zi).X
        /\ UD = UD_scheme(n, QMax, zi).UD
        /\ s = UD_scheme(n, QMax, zi).s
        /\ Sd = UD_scheme(n, QMax, zi).Sd
        /\ znorm = UD_scheme(n, QMax, zi).znorm
        /\ w = UD_scheme(n, QMax, zi).w
        /\ last_z_size = UD_scheme(n, QMax, zi).last_z_size
        /\ call = [op |-> "UD_scheme", arg |-> zi, z |-> <<>>, on_healthy |-> FALSE,
                   after |-> "none"]
        /\ pre = UD_scheme(n, QMax, zi)
        /\ err = NoError
        /\ ret = Uninit
        /\ trace = <<>>
        /\ what = ""
        /\ nops = 0
        /\ healthy = FALSE

\* the factor is populated (Precond: UD) once init has been called
Factored == UD[0][0] # Uninit

InitKalman ==
    \E x0 \in XInit(x_size), X0 \in CovInit(x_size) :
        Called("init_kalman", [x |-> x0, X |-> X0], <<>>,
               init_kalman(This, x_size, rclimit, x0, X0))

Update ==
    /\ Factored
    /\ Called("update", <<>>, <<>>, Outcome(update(This, x_size), NoError, Uninit, <<>>))

Predict ==
    /\ Factored
    /\ \E f \in PredictModels(x_size, q_max) :
        Called("predict", f, <<>>, predict(This, x_size, q_max, rclimit, f))

ObserveUncorrelated ==
    /\ Factored
    /\ \E zs \in 0..MaxZSize : \E h \in ObsModels(x_size, zs), z \in Zs(zs) :
        Called("observe_uncorrelated", h, z,
               observe_uncorrelated(This, x_size, rclimit, h, z))

\* reads nothing of the filter, so it is called in any state
ObserveLinrzCorrelated ==
    /\ nops < MaxOps
    /\ \E zs \in 0..MaxZSize : \E h \in CorrModels(x_size, zs), z \in Zs(zs) :
        Called("observe_linrz_correlated", h, z, observe_linrz_correlated(This))

\* called with at least one observation
ObserveLinearCorrelated ==
    /\ Factored
    /\ \E zs \in 1..MaxZSize : \E h \in CorrModels(x_size, zs), z \in Zs(zs) :
        Called("observe_linear_correlated", h, z,
               observe_linear_correlated(This, x_size, rclimit, h, z))

ObserveSequential ==
    /\ Factored
    /\ \E zs \in 0..MaxZSize : \E h \in ObsModels(x_size, zs), z \in Zs(zs) :
        Called("observe_sequential", h, z,
               observe_sequential(This, x_size, rclimit, h, z))

Next ==
    \/ InitKalman
    \/ Update
    \/ Predict
    \/ ObserveUncorrelated
    \/ ObserveLinrzCorrelated
    \/ ObserveLinearCorrelated
    \/ ObserveSequential

Spec == Init /\ [][Next]_vars

---------------------------------------------------------------------------
(* A one-dimensional filter fed scalar measurements whose noise variance   *)
(* is halved from one call to the next. A Float has a smallest positive    *)
(* value: halving it gives zero, and there the sequence ends.              *)

\* the next noise variance after r
Halved(r) == IF r[2] >= 2^MaxHalvings THEN Zero ELSE fdiv(r, F(2))

\* well-conditioned one-dimensional covariances
WellCov == {Cov(1, <<d, 0, 0>>) : d \in 1..3}

\* a scalar measurement of the state with noise variance r
ScalarObs(r) ==
    [Hx |-> [o \in 0..0 |-> HRow(1, "e0")],
     Zv |-> [o \in 0..0 |-> r],
     c |-> [o \in 0..0 |-> Zero]]

\* the noise variance of the next measurement
NextNoise == IF call.op \in {"observe_uncorrelated", "observe_sequential"}
             THEN Halved(call.arg.Zv[0]) ELSE One

\* the caller goes on while no call has failed and the sequence has not ended
Feeding ==
    /\ healthy
    /\ call.op \in {"observe_uncorrelated", "observe_sequential"} => call.arg.Zv[0] # Zero

InitShrinking == Init /\ x_size = 1

InitWell ==
    /\ call.op = "UD_scheme"
    /\ \E x0 \in XInit(1), X0 \in WellCov :
        Did("init_kalman", [x |-> x0, X |-> X0], <<>>,
            init_kalman(This, x_size, rclimit, x0, X0))

ObserveShrinkingUncorrelated ==
    /\ Feeding
    /\ \E z \in Zs(1) :
        Did("observe_uncorrelated", ScalarObs(NextNoise), z,
            observe_uncorrelated(This, x_size, rclimit, ScalarObs(NextNoise), z))

ObserveShrinkingSequential ==
    /\ Feeding
    /\ \E z \in Zs(1) :
        Did("observe_sequential", ScalarObs(NextNoise), z,
            observe_sequential(This, x_size, rclimit, ScalarObs(NextNoise), z))

NextShrinking ==
    \/ InitWell
    \/ ObserveShrinkingUncorrelated
    \/ ObserveShrinkingSequential

\* a step of NextShrinking: it is possible while the caller goes on, and
\* every call counts in nops
CallMade ==
    /\ call.op = "UD_scheme" \/ Feeding
    /\ nops' = nops + 1

\* the caller keeps calling: every call returns or throws
SpecShrinking == InitShrinking /\ [][NextShrinking]_vars /\ WF_nops(CallMade)

---------------------------------------------------------------------------
(* The classical Kalman filter on the explicit covariance, against which   *)
(* the factored operations are compared                                    *)

MatVec(P, h1, n) == [i \in 0..(n-1) |-> Dot(P[i], h1, n)]

InnovationVariance(P, h1, r, n) == fadd(r, Dot(h1, MatVec(P, h1, n), n))

KalmanGain(P, h1, r, n) ==
    [i \in 0..(n-1) |-> fdiv(MatVec(P, h1, n)[i], InnovationVariance(P, h1, r, n))]

Downdate(P, h1, r, n) ==
    [i \in 0..(n-1) |-> [j \in 0..(n-1) |->
        fsub(P[i][j], fdiv(fmul(MatVec(P, h1, n)[i], MatVec(P, h1, n)[j]),
                           InnovationVariance(P, h1, r, n)))]]

\* Fx P Fx' + G diag(q) G'
PredictedCov(P, f, n) ==
    [i \in 0..(n-1) |-> [j \in 0..(n-1) |->
        fadd(Dot(f.Fx[i], MatVec(P, f.Fx[j], n), n),
             FSum([c \in 0..(Size(f.q)-1) |-> fmul(fmul(f.G[i][c], f.q[c]), f.G[j][c])],
                  0, Size(f.q) - 1))]]

\* the mean after the elements o..k-1 of z have been applied to (xv, P)
RECURSIVE KalmanMean(_, _, _, _, _, _, _)
KalmanMean(xv, P, h, z, o, k, n) ==
    IF o >= k THEN xv
    ELSE KalmanMean(
             [i \in 0..(n-1) |->
                 fadd(xv[i], fmul(KalmanGain(P, h.Hx[o], h.Zv[o], n)[i],
                                  fsub(z[o], fadd(Dot(h.Hx[o], xv, n), h.c[o]))))],
             Downdate(P, h.Hx[o], h.Zv[o], n), h, z, o + 1, k, n)

ObserveOps == {"observe_uncorrelated", "observe_sequential"}

\* the observe variants that reduce to observeUD
ObserveUDOps == ObserveOps \cup {"observe_linear_correlated"}

\* the rcond of the factorisation of Z in the last call, a correlated observe
ZRcond == UdUfactor(call.arg.Z, Size(call.z)).rcond

\* the scalar update the last observe call ended with
LastSub == trace[Len(trace)]

RejectedSub == call.op \in ObserveUDOps /\ trace # <<>> /\ BelowLimit(LastSub.rcond, rclimit)

---------------------------------------------------------------------------
(* Properties *)

\* C1: observe with a linearized correlated-noise model raises a Logic
\* failure whatever the filter and z are, and the mean x and the factor UD
\* are after the call what they were before it
C1_LinrzCorrelatedRaisesLogic ==
    call.op = "observe_linrz_correlated" =>
        /\ err = Logic_exception
        /\ x = pre.x
        /\ UD = pre.UD

C1_Witness ==
    /\ call.op = "observe_linrz_correlated"
    /\ Size(call.z) = 2
    /\ err = Logic_exception
    /\ nops >= 3
    /\ pre.x \notin XInit(x_size)

\* C2: predict with q longer than q_max raises a Logic failure before the
\* factor is touched: every entry of UD, left block and scratch block, is
\* after the failed call what it was before
C2_OversizeNoiseLeavesFactor ==
    (call.op = "predict" /\ Size(call.arg.q) > q_max) =>
        /\ err = Logic_exception
        /\ \A i \in 0..(x_size-1) : \A c \in 0..(x_size + q_max - 1) :
               UD[i][c] = pre.UD[i][c]

C2_Witness ==
    /\ call.op = "predict"
    /\ Size(call.arg.q) > q_max
    /\ err = Logic_exception
    /\ \E i \in 0..(x_size-1) : call.arg.G[i][0] # UD[i][x_size]

CheckedOps == {"init_kalman", "predict"} \cup ObserveUDOps

\* the element of Zv the last observe call found negative, if it did
NegativeZv ==
    /\ call.op \in ObserveOps
    /\ Len(trace) < Size(call.z)
    /\ flt(call.arg.Zv[Len(trace)], Zero)

C4_DiagonalNonNegative ==
    healthy => \A i \in 0..(x_size-1) : fle(Zero, UD[i][i])

C4_Witness ==
    /\ healthy
    /\ nops >= 3
    /\ call.op \in ObserveOps
    /\ Len(trace) = 2
    /\ \E i \in 0..(x_size-1) : UD[i][i] # pre.UD[i][i]

\* C5: when the scalar update of element k fails (observeUD returned -1 or
\* its rcond was rejected) the observe call raises a Numeric failure and
\* ends there: x is the prior mean with the elements 0..k-1 applied, and
\* nothing of element k or a later one
C5_FailedElementAborts ==
    RejectedSub =>
        /\ err = Numeric_exception
        /\ Len(trace) = LastSub.o + 1
        /\ x = LastSub.x
        /\ call.op \in ObserveOps =>
               x = KalmanMean(pre.x, UdUrecompose(pre.UD, x_size), call.arg, call.z,
                              0, LastSub.o, x_size)

\* element 1 failed after element 0 had moved the mean
C5_Witness ==
    /\ RejectedSub
    /\ call.op \in ObserveOps
    /\ LastSub.o = 1
    /\ x # pre.x
    /\ err = Numeric_exception

\* the factor proper: the diagonal and the strict upper triangle of the
\* left block
SameFactor(M1, M2, n) ==
    \A i \in 0..(n-1) : \A c \in i..(n-1) : M1[i][c] = M2[i][c]

\* C6: whenever predict or a scalar update of observe fails, the factor
\* the filter is left with is a whole one: the factor as it was before the
\* failing step, or the completely updated factor, never one with only
\* some entries of the failing step rewritten (stated of the calls made on
\* a filter whose calls since init had all succeeded)
C6_NoPartialFactor ==
    call.on_healthy =>
    /\ (call.op = "predict" /\ err # NoError) =>
           \/ SameFactor(UD, pre.UD, x_size)
           \/ UdUrecompose(UD, x_size) =
                  PredictedCov(UdUrecompose(pre.UD, x_size), call.arg, x_size)
    /\ (RejectedSub /\ err # NoError) =>
           \/ SameFactor(UD, LastSub.UD, x_size)
           \/ UdUrecompose(UD, x_size) =
                  Downdate(UdUrecompose(LastSub.UD, x_size), LastSub.h, LastSub.r, x_size)

\* C7: after a successful predict U D U' = Fx P Fx' + G diag(q) G', with P
\* the U D U' of the factor before the call, and the mean is f of the
\* prior mean
C7_PredictCovariance ==
    (call.op = "predict" /\ err = NoError) =>
        /\ UdUrecompose(UD, x_size) =
               PredictedCov(UdUrecompose(pre.UD, x_size), call.arg, x_size)
        /\ \A i \in 0..(x_size-1) :
               x[i] = fadd(Dot(call.arg.Fx[i], pre.x, x_size), call.arg.u[i])

\* Fx mixes the states, noise is added, and the prior U is not the identity
C7_Witness ==
    /\ call.op = "predict"
    /\ err = NoError
    /\ x_size = 2
    /\ Size(call.arg.q) = 1
    /\ call.arg.Fx[1][0] # Zero
    /\ pre.UD[0][1] # Zero
    /\ UD[0][1] # Zero
    /\ x # pre.x

\* C8: an observeUD (h, r) that succeeds on a factor of covariance
\* P = U D U' puts out alpha = r + h'Ph and gain = P h / alpha; with one
\* state and h = 1 the gain is P / (P + r)
C8_GainIsKalmanGain ==
    call.op \in ObserveUDOps =>
        \A k \in 1..Len(trace) : ~trace[k].notPD =>
            /\ trace[k].alpha =
                   InnovationVariance(UdUrecompose(trace[k].UD, x_size),
                                      trace[k].h, trace[k].r, x_size)
            /\ trace[k].gain =
                   KalmanGain(UdUrecompose(trace[k].UD, x_size),
                              trace[k].h, trace[k].r, x_size)
            /\ (x_size = 1 /\ trace[k].h[0] = One) =>
                   trace[k].gain[0] =
                       fdiv(trace[k].UD[0][0], fadd(trace[k].UD[0][0], trace[k].r))

\* a gain with both elements moved by the coupling in U
C8_Witness ==
    /\ call.op \in ObserveOps
    /\ x_size = 2
    /\ trace # <<>>
    /\ ~LastSub.notPD
    /\ LastSub.UD[0][1] # Zero
    /\ LastSub.h[0] # Zero
    /\ LastSub.h[1] # Zero
    /\ LastSub.r # Zero
    /\ LastSub.gain[0] # Zero
    /\ LastSub.gain[1] # Zero

\* C9: after a successful observeUD (h, r) on a factor of covariance P the
\* factor is that of P - (P h)(P h)' / (r + h'Ph), and only the diagonal
\* and the strict upper triangle of the left block have been modified
C9_RankOneDowndate ==
    call.op \in ObserveUDOps =>
        \A k \in 1..Len(trace) : ~trace[k].notPD =>
            /\ UdUrecompose(trace[k].UDpost, x_size) =
                   Downdate(UdUrecompose(trace[k].UD, x_size),
                            trace[k].h, trace[k].r, x_size)
            /\ \A i \in 0..(x_size-1) : \A c \in 0..(x_size + q_max - 1) :
                   (c < i \/ c >= x_size) => trace[k].UDpost[i][c] = trace[k].UD[i][c]

C9_Witness ==
    /\ call.op \in ObserveOps
    /\ x_size = 2
    /\ trace # <<>>
    /\ ~LastSub.notPD
    /\ LastSub.h[0] # Zero
    /\ LastSub.h[1] # Zero
    /\ LastSub.UDpost[0][1] # LastSub.UD[0][1]
    /\ LastSub.UDpost[1][1] # LastSub.UD[1][1]
    /\ LastSub.UDpost[0][0] # LastSub.UD[0][0]

SameResult(out) ==
    /\ x = out.st.x
    /\ UD = out.st.UD
    /\ s = out.st.s
    /\ Sd = out.st.Sd
    /\ ret = out.ret
    /\ err = out.err

\* C10: for a linear uncorrelated model (the same Hx rows and Zv,
\* h(x) = Hx x) and the same prior mean, factor and z, the uncorrelated
\* linearized observe and the sequential observe end with the same mean x,
\* the same factor UD, the same innovations s and Sd and the same rcond
C10_VariantsAgree ==
    /\ call.op = "observe_uncorrelated" =>
           SameResult(observe_sequential(pre, x_size, rclimit, call.arg, call.z))
    /\ call.op = "observe_sequential" =>
           SameResult(observe_uncorrelated(pre, x_size, rclimit, call.arg, call.z))

\* two elements applied, the second to the mean the first had moved
C10_Witness ==
    /\ call.op = "observe_uncorrelated"
    /\ err = NoError
    /\ Len(trace) = 2
    /\ trace[2].x # pre.x
    /\ x # trace[2].x
    /\ trace[2].rcond # trace[1].rcond

\* C11: a successful observe call of the uncorrelated, linear correlated or
\* sequential variant returns the least of the rcond values its scalar
\* updates returned over the elements 0..z_size-1, not the last of them
C11_ReturnsMinimumRcond ==
    (call.op \in ObserveUDOps /\ err = NoError /\ Size(call.z) > 0) =>
        /\ Len(trace) = Size(call.z)
        /\ \A k \in 1..Len(trace) : fle(ret, trace[k].rcond)
        /\ \E k \in 1..Len(trace) : ret = trace[k].rcond

\* the last scalar update was not the worst conditioned
C11_Witness ==
    /\ call.op \in ObserveUDOps
    /\ err = NoError
    /\ Len(trace) = 2
    /\ flt(trace[1].rcond, trace[2].rcond)
    /\ ret = trace[1].rcond

\* the factor the last observe call had reached when it ended
FactorReached == IF trace = <<>> THEN pre.UD ELSE LastSub.UDpost

\* C12: in the uncorrelated and the sequential observe every Zv[o] is
\* checked before its scalar update: a negative one raises a Numeric
\* failure, observeUD is never given it, and the factor and the mean stay
\* as the elements before o left them
C12_NegativeZvRefused ==
    call.op \in ObserveOps =>
        /\ \A k \in 1..Len(trace) : fle(Zero, trace[k].r)
        /\ err = NoError => \A o \in 0..(Size(call.z)-1) : fle(Zero, call.arg.Zv[o])
        /\ (NegativeZv /\ ~RejectedSub) =>
               /\ err = Numeric_exception
               /\ \A i \in 0..(x_size-1) : \A c \in 0..(x_size + q_max - 1) :
                      UD[i][c] = FactorReached[i][c]
               /\ x = KalmanMean(pre.x, UdUrecompose(pre.UD, x_size), call.arg, call.z,
                                 0, Len(trace), x_size)

\* Zv[1] is negative and element 0 had been applied
C12_Witness ==
    /\ call.op \in ObserveOps
    /\ NegativeZv
    /\ Len(trace) = 1
    /\ ~RejectedSub
    /\ err = Numeric_exception
    /\ x # pre.x
    /\ UD # pre.UD

\* the last call was a scalar update refused for its rcond
ShrinkingFailed ==
    /\ call.op \in ObserveOps
    /\ err = Numeric_exception
    /\ RejectedSub

C14_InitUpdateRoundTrip ==
    /\ (call.op = "init_kalman" /\ fle(Zero, trace[1].rcond)) =>
           /\ x = call.arg.x
           /\ X = call.arg.X
           /\ UdUrecompose(UD, x_size) = call.arg.X
    /\ (call.op = "update" /\ call.after = "init_kalman"
            /\ fle(Zero, UdUfactor(pre.X, x_size).rcond)) =>
           /\ X = pre.X
           /\ x = pre.x
           /\ UD = pre.UD

\* X has off-diagonal elements, so the factor is not X itself
C14_Witness ==
    /\ call.op = "update"
    /\ call.after = "init_kalman"
    /\ call.on_healthy
    /\ x_size = 2
    /\ X[0][1] # Zero
    /\ UD[0][0] # X[0][0]
    /\ X = pre.X

\* the strict lower triangle of the left block of UD is zero
LowerZero == \A i \in 0..(x_size-1) : \A j \in 0..(i-1) : UD[i][j] = Zero

\* the last call was a predict that left predictGq by its Negative exit
NegativeExit ==
    /\ call.op = "predict"
    /\ err = Numeric_exception
    /\ trace[1].rcond = MinusOne

\* C15 as stated: after every predict call the strict lower triangle of the
\* left block of UD is zero, whatever it held before the call; here for the
\* calls made on a filter that init accepted and no call has failed on
C15_LowerZeroAfterEveryPredict ==
    (call.op = "predict" /\ call.on_healthy) => LowerZero

\* C15, as the code has it: the strict lower triangle of the left block of
\* UD is zero after every predict call whose MWG-S loop ran to its end,
\* accepted or refused for its rcond, whatever the triangle held before;
\* a predict refused for the size of q leaves the triangle as it was
C15_LowerZeroAfterTranspose ==
    call.op = "predict" =>
        /\ (err # Logic_exception /\ ~NegativeExit) => LowerZero
        /\ err = Logic_exception =>
               \A i \in 0..(x_size-1) : \A j \in 0..(i-1) : UD[i][j] = pre.UD[i][j]

\* the lower triangle held part of X before the call
C15_Witness ==
    /\ call.op = "predict"
    /\ err = NoError
    /\ x_size = 2
    /\ pre.UD[1][0] # Zero
    /\ UD[0][1] # Zero
    /\ LowerZero

\* the rcond init's factorisation gave is one check_PSD refuses
InitRefused == call.op = "init_kalman" /\ BelowLimit(trace[1].rcond, rclimit)

\* C16 as stated: init, when the factorisation of X is unacceptable, fails
\* with a Logic failure whose message is "Initial state covariance not
\* positive-semi-definite"
C16_InitRaisesLogic ==
    InitRefused =>
        /\ err = Logic_exception
        /\ what = "Initial state covariance not positive-semi-definite"

\* C16, as the code has it: init factorises X into the left block of UD,
\* leaving the right block alone; when check_PSD refuses the rcond it fails
\* with a Numeric failure described as "Initial X not PSD", and otherwise
\* it returns normally; either way the left block holds the factorisation
C16_InitRaisesNumeric ==
    call.op = "init_kalman" =>
        /\ Len(trace) = 1
        /\ \A i \in 0..(x_size-1) :
               /\ \A j \in 0..(x_size-1) :
                      UD[i][j] = UdUfactor(call.arg.X, x_size).UD[i][j]
               /\ \A c \in x_size..(x_size + q_max - 1) : UD[i][c] = pre.UD[i][c]
        /\ InitRefused => (err = Numeric_exception /\ what = "Initial X not PSD")
        /\ ~InitRefused => (err = NoError /\ what = "" /\ healthy)

\* X is indefinite and the factorisation reports -1
C16_Witness ==
    /\ InitRefused
    /\ x_size = 2
    /\ trace[1].rcond = MinusOne
    /\ err = Numeric_exception
    /\ what = "Initial X not PSD"
    /\ UD[1][1] = call.arg.X[1][1]

\* the prediction of the element the k-th scalar update of the last call
\* applied, evaluated at the mean that update began with
PredictedAt(k) ==
    fadd(Dot(call.arg.Hx[k-1], trace[k].x, x_size), call.arg.c[k-1])

\* the mean the k-th scalar update leaves
MeanAfter(k) ==
    [i \in 0..(x_size-1) |->
        fadd(trace[k].x[i], fmul(trace[k].gain[i], fsub(call.z[k-1], PredictedAt(k))))]

\* the scalar updates of the last call that were accepted: all of them,
\* or all but the last when that one was refused for its rcond
Accepted == 1..(Len(trace) - IF RejectedSub THEN 1 ELSE 0)

\* C17: the uncorrelated and the sequential observe apply the elements of z
\* strictly in the order 0, 1, ...; the prediction of element o is
\* evaluated at the mean the elements 0..o-1 have already updated, so the
\* innovation s[o] is z[o] less that prediction and each update starts from
\* the mean the one before it left
C17_InOrderAtUpdatedMean ==
    call.op \in ObserveOps =>
        /\ \A k \in 1..Len(trace) : trace[k].o = k - 1
        /\ trace # <<>> => trace[1].x = pre.x
        /\ \A k \in Accepted :
               /\ s[k-1] = fsub(call.z[k-1], PredictedAt(k))
               /\ k < Len(trace) => trace[k+1].x = MeanAfter(k)
               /\ k = Len(trace) => x = MeanAfter(k)

\* element 1 was predicted at a mean that element 0 had moved
C17_Witness ==
    /\ call.op \in ObserveOps
    /\ err = NoError
    /\ Len(trace) = 2
    /\ trace[2].x # pre.x
    /\ PredictedAt(2) # fadd(Dot(call.arg.Hx[1], pre.x, x_size), call.arg.c[1])
    /\ s[1] # Zero

\* s, Sd and znorm have the length last_z_size
BuffersSized ==
    /\ Size(s) = last_z_size
    /\ Size(Sd) = last_z_size
    /\ Size(znorm) = last_z_size

\* C18: in every state s, Sd and znorm have the length last_z_size;
\* last_z_size is z_initialsize after construction, the size of z after an
\* uncorrelated, linear correlated or sequential observe, and as it was
\* after any other call; and the buffers are resized only by an observe
\* whose z has another size than last_z_size: any other call leaves s and
\* Sd as they were but for the elements its scalar updates wrote
C18_BuffersFollowMeasurementSize ==
    /\ BuffersSized
    /\ call.op = "UD_scheme" => last_z_size = call.arg
    /\ call.op \in ObserveUDOps => last_z_size = Size(call.z)
    /\ call.op \notin ObserveUDOps \cup {"UD_scheme"} =>
           /\ last_z_size = pre.last_z_size
           /\ s = pre.s /\ Sd = pre.Sd /\ znorm = pre.znorm
    /\ (call.op \in ObserveUDOps /\ Size(call.z) = pre.last_z_size) =>
           \A o \in 0..(last_z_size - 1) :
               (o + 1) \notin Accepted => (s[o] = pre.s[o] /\ Sd[o] = pre.Sd[o])

\* an observe of the size of the one before it, refused at its first
\* element: s still holds the innovations of the call before
C18_Witness ==
    /\ call.op \in ObserveUDOps
    /\ Size(call.z) = 2
    /\ pre.last_z_size = 2
    /\ err = Numeric_exception
    /\ trace = <<>>
    /\ s[0] # Uninit
    /\ s[1] # Uninit
    /\ s = pre.s

\* the rows the MWG-S loop of the last call, a predict, went through
Rows == trace[1].rows

LastRow == Rows[Len(Rows)]

\* a pivot that is negative, or zero against a nonzero coupling product
BadPivot(row) == flt(row.e, Zero) \/ (row.e = Zero /\ row.coupled)

\* UD and d as the MWG-S loop of the last call found them
LoopEntry ==
    FxU(AugmentUD(pre.UD, x_size, call.arg.G, Size(call.arg.q)),
        AugmentD(x_size, call.arg.q), call.arg.Fx, x_size)

\* the d-weighted inner product of row j of M with itself
WeightedNorm(M, d, j, N) ==
    FSum([k \in 0..(N-1) |-> fmul(fmul(d[k], M[j][k]), M[j][k])], 0, N - 1)

\* C19: the MWG-S loop goes through the rows n-1, n-2, ... and past a row
\* only if its pivot e is positive, or zero with no nonzero coupling
\* product; at the first row whose pivot is negative, or zero with one,
\* predictGq stops: no other row is eliminated, the transpose and zeroing
\* is skipped, it returns -1 and predict raises a Numeric failure;
\* otherwise the loop reaches row 0 and predictGq returns the rcond
\* estimate of the transposed factor, whose diagonal holds the pivots
C19_StopsAtFirstBadPivot ==
    (call.op = "predict" /\ err # Logic_exception) =>
        /\ Len(Rows) \in 1..x_size
        /\ Rows[1].UD = LoopEntry.UD
        /\ \A k \in 1..Len(Rows) :
               /\ Rows[k].j = x_size - k
               /\ Rows[k].e = WeightedNorm(Rows[k].UD, LoopEntry.d, Rows[k].j,
                                           x_size + Size(call.arg.q))
               /\ k < Len(Rows) => ~BadPivot(Rows[k])
        /\ BadPivot(LastRow) =>
               /\ trace[1].rcond = MinusOne
               /\ err = Numeric_exception
               /\ \A i \in 0..(x_size-1) : \A c \in 0..(x_size + q_max - 1) :
                      UD[i][c] = IF i = LastRow.j /\ c = i /\ LastRow.e = Zero
                                 THEN Zero ELSE LastRow.UD[i][c]
        /\ ~BadPivot(LastRow) =>
               /\ Len(Rows) = x_size
               /\ trace[1].rcond = UdUrcond(UD, x_size)
               /\ trace[1].rcond # MinusOne
               /\ LowerZero
               /\ \A k \in 1..x_size : UD[x_size-k][x_size-k] = Rows[k].e
               /\ err = NoError => ret = trace[1].rcond

\* row 1 was eliminated and row 0 has the bad pivot: the lower triangle
\* still holds what the elimination of row 1 left there
C19_Witness ==
    /\ call.op = "predict"
    /\ call.on_healthy
    /\ err = Numeric_exception
    /\ x_size = 2
    /\ Len(Rows) = 2
    /\ flt(Zero, Rows[1].e)
    /\ BadPivot(LastRow)
    /\ UD[1][0] # Zero

====
